---- MODULE Spec2Model ----
(***************************************************************************)
(* Model of zeroten_expand_tilde (src/src/lib.rs): expansion of a leading  *)
(* `~` path component into a home directory.                               *)
(*                                                                         *)
(* A path is the sequence of its characters (Unix representation, one      *)
(* separator "/").  The operators below follow std::path as it is used by  *)
(* lib.rs:56-57: Path::strip_prefix (component-wise, through the           *)
(* Components iterator) and Path::join (PathBuf::push).                    *)
(***************************************************************************)
EXTENDS Naturals, Sequences, FiniteSets

\* ------------------------------------------------------------------------
\* Bounds of the model
\* ------------------------------------------------------------------------
MaxPathLen == 3
MaxHomeLen == 2
MaxRemLen == 2

Chars == {"~", "/", ".", "a"}
SEP == "/"

PathsUpTo(n) == UNION {[1..k -> Chars] : k \in 0..n}
Paths == PathsUpTo(MaxPathLen)
Homes == PathsUpTo(MaxHomeLen)
Remainders == PathsUpTo(MaxRemLen) \ {<<>>}

\* const TILDE: &str = "~";
TILDE == <<"~">>

\* ------------------------------------------------------------------------
\* std::path::Components, as far as strip_prefix and == use it
\* ------------------------------------------------------------------------
NoComponent == [kind |-> "None", name |-> <<>>]
RootDir == [kind |-> "RootDir", name |-> <<>>]
CurDir == [kind |-> "CurDir", name |-> <<>>]
ParentDir == [kind |-> "ParentDir", name |-> <<>>]
Normal(n) == [kind |-> "Normal", name |-> n]

Drop(s, n) == SubSeq(s, n + 1, Len(s))
Take(s, n) == SubSeq(s, 1, n)

\* Path::components(): front starts before the root, back in the body.
components(p) ==
    [path |-> p,
     has_physical_root |-> (Len(p) > 0 /\ p[1] = SEP),
     front |-> "StartDir"]

\* "" and "." are skipped inside a path, ".." is ParentDir.
parse_single_component(comp) ==
    IF comp = <<>> THEN NoComponent
    ELSE IF comp = <<".">> THEN NoComponent
    ELSE IF comp = <<".", ".">> THEN ParentDir
    ELSE Normal(comp)

FirstSep(p) ==
    IF \E i \in 1..Len(p) : p[i] = SEP
    THEN CHOOSE i \in 1..Len(p) : p[i] = SEP /\ \A j \in 1..(i - 1) : p[j] # SEP
    ELSE 0

LastSep(p) ==
    IF \E i \in 1..Len(p) : p[i] = SEP
    THEN CHOOSE i \in 1..Len(p) : p[i] = SEP /\ \A j \in (i + 1)..Len(p) : p[j] # SEP
    ELSE 0

parse_next_component(p) ==
    LET i == FirstSep(p)
        comp == IF i = 0 THEN p ELSE Take(p, i - 1)
        extra == IF i = 0 THEN 0 ELSE 1
    IN [size |-> Len(comp) + extra, comp |-> parse_single_component(comp)]

parse_next_component_back(p) ==
    LET i == LastSep(p)
        comp == IF i = 0 THEN p ELSE Drop(p, i)
        extra == IF i = 0 THEN 0 ELSE 1
    IN [size |-> Len(comp) + extra, comp |-> parse_single_component(comp)]

include_cur_dir(it) ==
    /\ ~it.has_physical_root
    /\ Len(it.path) > 0
    /\ it.path[1] = "."
    /\ (Len(it.path) = 1 \/ it.path[2] = SEP)

\* Components::next: the item (NoComponent at the end) and the advanced
\* iterator.
RECURSIVE Components_next(_)
Components_next(it) ==
    IF it.front = "Done" THEN [item |-> NoComponent, it |-> it]
    ELSE IF it.front = "StartDir" THEN
        IF it.has_physical_root
        THEN [item |-> RootDir,
              it |-> [it EXCEPT !.front = "Body", !.path = Drop(it.path, 1)]]
        ELSE IF include_cur_dir(it)
        THEN [item |-> CurDir,
              it |-> [it EXCEPT !.front = "Body", !.path = Drop(it.path, 1)]]
        ELSE Components_next([it EXCEPT !.front = "Body"])
    ELSE IF it.path # <<>> THEN
        LET n == parse_next_component(it.path)
            rest == [it EXCEPT !.path = Drop(it.path, n.size)]
        IN IF n.comp # NoComponent
           THEN [item |-> n.comp, it |-> rest]
           ELSE Components_next(rest)
    ELSE Components_next([it EXCEPT !.front = "Done"])

RECURSIVE trim_left(_)
trim_left(p) ==
    IF p = <<>> THEN p
    ELSE LET n == parse_next_component(p)
         IN IF n.comp # NoComponent THEN p ELSE trim_left(Drop(p, n.size))

RECURSIVE trim_right(_)
trim_right(p) ==
    IF p = <<>> THEN p
    ELSE LET n == parse_next_component_back(p)
         IN IF n.comp # NoComponent THEN p
            ELSE trim_right(Take(p, Len(p) - n.size))

\* Components::as_path: the unconsumed part; once the front is in the body,
\* leading and trailing separators and "." segments are trimmed.
Components_as_path(it) ==
    IF it.front = "Body" THEN trim_right(trim_left(it.path))
    ELSE IF it.front = "Done" THEN <<>>
    ELSE LET keep == IF it.has_physical_root \/ include_cur_dir(it) THEN 1 ELSE 0
             body == trim_right(Drop(it.path, keep))
         IN Take(it.path, keep) \o body

\* The list of components of a path (what Path's == compares).
RECURSIVE CollectComponents(_)
CollectComponents(it) ==
    LET n == Components_next(it)
    IN IF n.item = NoComponent THEN <<>>
       ELSE <<n.item>> \o CollectComponents(n.it)

ComponentsOf(p) == CollectComponents(components(p))

\* impl PartialEq for Path: equal component lists.
PathEq(a, b) == ComponentsOf(a) = ComponentsOf(b)

NoIter == [found |-> FALSE, it |-> components(<<>>)]

\* std::path::iter_after: consume `prefix` from `iter` component by component.
RECURSIVE iter_after(_, _)
iter_after(iter, prefix) ==
    LET x == Components_next(iter)
        y == Components_next(prefix)
    IN IF x.item # NoComponent /\ y.item # NoComponent
       THEN IF x.item = y.item THEN iter_after(x.it, y.it) ELSE NoIter
       ELSE IF y.item = NoComponent THEN [found |-> TRUE, it |-> iter]
       ELSE NoIter

\* Path::strip_prefix: Ok(remainder) or Err(StripPrefixError).
strip_prefix(p, base) ==
    LET r == iter_after(components(p), components(base))
    IN IF r.found THEN [ok |-> TRUE, val |-> Components_as_path(r.it)]
       ELSE [ok |-> FALSE, val |-> <<>>]

is_absolute(p) == Len(p) > 0 /\ p[1] = SEP

\* PathBuf::push on a copy of `base` (Path::join).
join(base, p) ==
    LET need_sep == Len(base) > 0 /\ base[Len(base)] # SEP
    IN IF is_absolute(p) THEN p
       ELSE IF need_sep THEN base \o <<SEP>> \o p
       ELSE base \o p

\* ------------------------------------------------------------------------
\* The library (src/src/lib.rs)
\* ------------------------------------------------------------------------

\* What a call produces: a value (kind "Ok"; for a Cow, whether it borrows
\* the caller's path or owns a new buffer), a HomeDirError (kind "Err"), or
\* a panic.
Returned(c, v) == [kind |-> "Ok", cow |-> c, val |-> v, err |-> "none"]
Failed(e) == [kind |-> "Err", cow |-> "none", val |-> <<>>, err |-> e]
Panicked == [kind |-> "Panic", cow |-> "none", val |-> <<>>, err |-> "none"]
NoOutcome == [kind |-> "none", cow |-> "none", val |-> <<>>, err |-> "none"]

\* enum HomeDirError { Empty, NotFounded }
HomeDirError == {"Empty", "NotFounded"}

\* The result of the platform lookup (std::env::home_dir / home::home_dir).
OsNone == [some |-> FALSE, val |-> <<>>]
OsSome(h) == [some |-> TRUE, val |-> h]
OsLookups == {OsNone} \cup {OsSome(h) : h \in Homes}

\* Variant: the tilde is matched as the first character of the path.
inner_char_prefix(p, h) ==
    IF Len(p) > 0 /\ p[1] = "~"
    THEN Returned("Owned", join(h, trim_right(trim_left(Drop(p, 1)))))
    ELSE Returned("Borrowed", p)

\* Variant: the whole path, not the stripped remainder, is joined to home_dir.
inner_join_whole(p, h) ==
    IF strip_prefix(p, TILDE).ok
    THEN Returned("Owned", join(h, p))
    ELSE Returned("Borrowed", p)

\* Variant: the operands of join are swapped (stripped.join(home_dir)).
inner_join_swapped(p, h) ==
    LET stripped == strip_prefix(p, TILDE)
    IN IF stripped.ok
       THEN Returned("Owned", join(stripped.val, h))
       ELSE Returned("Borrowed", p)

\* Variant: strip_prefix(TILDE).unwrap() instead of map_or_else.
inner_unwrap(p, h) ==
    LET stripped == strip_prefix(p, TILDE)
    IN IF stripped.ok
       THEN Returned("Owned", join(h, stripped.val))
       ELSE Panicked

\* path.strip_prefix(TILDE).map_or_else(|_| path.into(),
\*                                      |stripped| home_dir.join(stripped).into())
inner(p, h) ==
    LET stripped == strip_prefix(p, TILDE)
    IN IF stripped.ok
       THEN Returned("Owned", join(h, stripped.val))
       ELSE Returned("Borrowed", p)

expand_tilde_with(p, h) == inner(p, h)

\* Variant: the is_empty() test is missing.
home_dir_unvalidated(lookup) ==
    IF ~lookup.some THEN Failed("NotFounded")
    ELSE Returned("Owned", lookup.val)

home_dir(lookup) ==
    IF ~lookup.some THEN Failed("NotFounded")
    ELSE IF lookup.val = <<>> THEN Failed("Empty")
    ELSE Returned("Owned", lookup.val)

\* Variant: home_dir().unwrap_or_default() instead of `?`.
expand_tilde_default_home(p, lookup) ==
    LET r == home_dir(lookup)
    IN expand_tilde_with(p, IF r.kind # "Ok" THEN <<>> ELSE r.val)

\* Variant: the home directory is resolved only when the path has a tilde.
expand_tilde_lazy(p, lookup) ==
    LET r == home_dir(lookup)
    IN IF ~strip_prefix(p, TILDE).ok THEN Returned("Borrowed", p)
       ELSE IF r.kind # "Ok" THEN r
       ELSE expand_tilde_with(p, r.val)

\* let home_dir = home_dir()?; Ok(expand_tilde_with(path, home_dir))
expand_tilde(p, lookup) ==
    LET r == home_dir(lookup)
    IN IF r.kind # "Ok" THEN r ELSE expand_tilde_with(p, r.val)

\* Variant: the method passes its arguments in the wrong order.
Path_expand_tilde_with_swapped(self, h) == expand_tilde_with(h, self)

\* impl ExpandTilde for Path
Path_expand_tilde_with(self, h) == expand_tilde_with(self, h)

Path_expand_tilde(self, lookup) == expand_tilde(self, lookup)

\* ------------------------------------------------------------------------
\* A caller of the library: one call, and a second expansion of its result;
\* and, for concurrent callers, threads that share borrowed inputs
\* ------------------------------------------------------------------------
VARIABLES op, path, home, rem, os, result, second,
          given, pc, call, loc, out

vars == <<op, path, home, rem, os, result, second, given, pc, call, loc, out>>

seqVars == <<op, rem, result, second>>
thrVars == <<given, pc, call, loc, out>>

Threads == {"t1", "t2"}

NoLocals == [lookup |-> OsNone, h |-> <<>>, stripped |-> <<>>, buf |-> <<>>]
NoInputs == [path |-> <<>>, home |-> <<>>, os |-> OsNone]

Init ==
    /\ op = "none"
    /\ path = <<>>
    /\ home = <<>>
    /\ rem = <<>>
    /\ os = OsNone
    /\ result = NoOutcome
    /\ second = NoOutcome
    /\ given = NoInputs
    /\ pc = [t \in Threads |-> "idle"]
    /\ call = [t \in Threads |-> "none"]
    /\ loc = [t \in Threads |-> NoLocals]
    /\ out = [t \in Threads |-> NoOutcome]

\* expand_tilde_with(path, home_dir)
CallExpandTildeWith ==
    /\ op = "none"
    /\ \E p \in Paths, h \in Homes :
        /\ path' = p
        /\ home' = h
        /\ result' = expand_tilde_with(p, h)
    /\ op' = "expand_tilde_with"
    /\ UNCHANGED <<rem, os, second>>
    /\ UNCHANGED thrVars

\* expand_tilde_with(Path::new("~").join(r), home_dir), r non-empty
CallExpandJoined ==
    /\ op = "none"
    /\ \E r \in Remainders, h \in Homes :
        /\ rem' = r
        /\ path' = join(TILDE, r)
        /\ home' = h
        /\ result' = expand_tilde_with(join(TILDE, r), h)
    /\ op' = "expand_joined"
    /\ UNCHANGED <<os, second>>
    /\ UNCHANGED thrVars

\* expand_tilde_with(expand_tilde_with(path, home_dir), home_dir)
CallExpandAgain ==
    /\ op = "expand_tilde_with"
    /\ result.kind = "Ok"
    /\ second' = expand_tilde_with(result.val, home)
    /\ op' = "expanded_again"
    /\ UNCHANGED <<path, home, rem, os, result>>
    /\ UNCHANGED thrVars

\* home_dir()
CallHomeDir ==
    /\ op = "none"
    /\ \E l \in OsLookups :
        /\ os' = l
        /\ result' = home_dir(l)
    /\ op' = "home_dir"
    /\ UNCHANGED <<path, home, rem, second>>
    /\ UNCHANGED thrVars

\* expand_tilde(path)
CallExpandTilde ==
    /\ op = "none"
    /\ \E p \in Paths, l \in OsLookups :
        /\ path' = p
        /\ os' = l
        /\ result' = expand_tilde(p, l)
    /\ op' = "expand_tilde"
    /\ UNCHANGED <<home, rem, second>>
    /\ UNCHANGED thrVars

\* path.expand_tilde_with(home_dir)
CallPathExpandTildeWith ==
    /\ op = "none"
    /\ \E p \in Paths, h \in Homes :
        /\ path' = p
        /\ home' = h
        /\ result' = Path_expand_tilde_with(p, h)
    /\ op' = "Path::expand_tilde_with"
    /\ UNCHANGED <<rem, os, second>>
    /\ UNCHANGED thrVars

\* path.expand_tilde()
CallPathExpandTilde ==
    /\ op = "none"
    /\ \E p \in Paths, l \in OsLookups :
        /\ path' = p
        /\ os' = l
        /\ result' = Path_expand_tilde(p, l)
    /\ op' = "Path::expand_tilde"
    /\ UNCHANGED <<home, rem, second>>
    /\ UNCHANGED thrVars

Next ==
    \/ CallExpandTildeWith
    \/ CallExpandJoined
    \/ CallExpandAgain
    \/ CallHomeDir
    \/ CallExpandTilde
    \/ CallPathExpandTildeWith
    \/ CallPathExpandTilde

Spec == Init /\ [][Next]_vars

\* ------------------------------------------------------------------------
\* Concurrent callers: each thread runs one library call at a time, statement
\* by statement, on the same borrowed path and home_dir and the same
\* process environment.
\* ------------------------------------------------------------------------
ConcPaths == {<<>>, <<"~">>, <<"~", "/", "a">>, <<"~", "a">>, <<"a">>}
ConcHomes == {<<>>, <<"/", "a">>, <<"~">>}
ConcLookups == {OsNone, OsSome(<<>>), OsSome(<<"/", "a">>)}

InitConc ==
    /\ op = "none"
    /\ rem = <<>>
    /\ result = NoOutcome
    /\ second = NoOutcome
    /\ path \in ConcPaths
    /\ home \in ConcHomes
    /\ os \in ConcLookups
    /\ given = [path |-> path, home |-> home, os |-> os]
    /\ pc = [t \in Threads |-> "idle"]
    /\ call = [t \in Threads |-> "none"]
    /\ loc = [t \in Threads |-> NoLocals]
    /\ out = [t \in Threads |-> NoOutcome]

\* A thread enters expand_tilde_with(&path, &home_dir), expand_tilde(&path)
\* or home_dir().
Begin(t) ==
    /\ pc[t] = "idle"
    /\ \E c \in {"expand_tilde_with", "expand_tilde", "home_dir"} :
        /\ call' = [call EXCEPT ![t] = c]
        /\ pc' = [pc EXCEPT ![t] = IF c = "expand_tilde_with" THEN "strip" ELSE "lookup"]
        /\ loc' = [loc EXCEPT ![t] = [NoLocals EXCEPT !.h = IF c = "expand_tilde_with" THEN home ELSE <<>>]]
    /\ UNCHANGED <<path, home, os, given, out>>
    /\ UNCHANGED seqVars

\* std::env::home_dir()
Lookup(t) ==
    /\ pc[t] = "lookup"
    /\ loc' = [loc EXCEPT ![t].lookup = os]
    /\ pc' = [pc EXCEPT ![t] = "validate"]
    /\ UNCHANGED <<path, home, os, given, call, out>>
    /\ UNCHANGED seqVars

\* .ok_or(NotFounded)?; the is_empty() test; Ok(home_dir), and in
\* expand_tilde the `?` on it
Validate(t) ==
    /\ pc[t] = "validate"
    /\ LET r == home_dir(loc[t].lookup)
       IN IF r.kind # "Ok" \/ call[t] = "home_dir"
          THEN /\ out' = [out EXCEPT ![t] = r]
               /\ pc' = [pc EXCEPT ![t] = "done"]
               /\ loc' = loc
          ELSE /\ loc' = [loc EXCEPT ![t].h = r.val]
               /\ pc' = [pc EXCEPT ![t] = "strip"]
               /\ out' = out
    /\ UNCHANGED <<path, home, os, given, call>>
    /\ UNCHANGED seqVars

\* path.strip_prefix(TILDE), and |_| path.into() when it fails
Strip(t) ==
    /\ pc[t] = "strip"
    /\ LET s == strip_prefix(path, TILDE)
       IN IF s.ok
          THEN /\ loc' = [loc EXCEPT ![t].stripped = s.val]
               /\ pc' = [pc EXCEPT ![t] = "to_path_buf"]
               /\ out' = out
          ELSE /\ out' = [out EXCEPT ![t] = Returned("Borrowed", path)]
               /\ pc' = [pc EXCEPT ![t] = "done"]
               /\ loc' = loc
    /\ UNCHANGED <<path, home, os, given, call>>
    /\ UNCHANGED seqVars

\* home_dir.join(stripped), first half: let mut buf = self.to_path_buf()
ToPathBuf(t) ==
    /\ pc[t] = "to_path_buf"
    /\ loc' = [loc EXCEPT ![t].buf = IF call[t] = "expand_tilde_with" THEN home ELSE loc[t].h]
    /\ pc' = [pc EXCEPT ![t] = "push"]
    /\ UNCHANGED <<path, home, os, given, call, out>>
    /\ UNCHANGED seqVars

\* Variant: the push goes to the caller's home_dir instead of the copy.
PushInPlace(t) ==
    /\ pc[t] = "push"
    /\ home' = join(home, loc[t].stripped)
    /\ out' = [out EXCEPT ![t] = Returned("Owned", join(home, loc[t].stripped))]
    /\ pc' = [pc EXCEPT ![t] = "done"]
    /\ UNCHANGED <<path, os, given, call, loc>>
    /\ UNCHANGED seqVars

\* home_dir.join(stripped), second half: buf.push(stripped); buf
Push(t) ==
    /\ pc[t] = "push"
    /\ out' = [out EXCEPT ![t] = Returned("Owned", join(loc[t].buf, loc[t].stripped))]
    /\ pc' = [pc EXCEPT ![t] = "done"]
    /\ UNCHANGED <<path, home, os, given, call, loc>>
    /\ UNCHANGED seqVars

\* The caller drops the result; the thread may call again.
Return(t) ==
    /\ pc[t] = "done"
    /\ pc' = [pc EXCEPT ![t] = "idle"]
    /\ call' = [call EXCEPT ![t] = "none"]
    /\ loc' = [loc EXCEPT ![t] = NoLocals]
    /\ out' = [out EXCEPT ![t] = NoOutcome]
    /\ UNCHANGED <<path, home, os, given>>
    /\ UNCHANGED seqVars

NextConc ==
    \E t \in Threads :
        \/ Begin(t)
        \/ Lookup(t)
        \/ Validate(t)
        \/ Strip(t)
        \/ ToPathBuf(t)
        \/ Push(t)
        \/ Return(t)

SpecConc == InitConc /\ [][NextConc]_vars

\* What the call of a thread returns when it runs alone on the given inputs.
Alone(c, in) ==
    IF c = "expand_tilde_with" THEN expand_tilde_with(in.path, in.home)
    ELSE IF c = "expand_tilde" THEN expand_tilde(in.path, in.os)
    ELSE home_dir(in.os)

\* ------------------------------------------------------------------------
\* Properties
\* ------------------------------------------------------------------------
FirstComponentIsTilde(p) ==
    /\ ComponentsOf(p) # <<>>
    /\ ComponentsOf(p)[1] = Normal(TILDE)

ExpandWithOps == {"expand_tilde_with", "expand_joined", "Path::expand_tilde_with"}
ResolvingOps == {"home_dir", "expand_tilde", "Path::expand_tilde"}

\* C1: a path whose first component is not exactly `~` (the empty path, a
\* path without tilde, `~` glued to further characters) is returned unchanged,
\* borrowed, whatever the home directory.
C1_Identity ==
    (op \in ExpandWithOps /\ ~FirstComponentIsTilde(path))
        => result = Returned("Borrowed", path)

C1_Witness ==
    /\ op = "expand_tilde_with"
    /\ path = <<"~", "a">>
    /\ home = <<"/", "a">>
    /\ result.val = path

\* C2: expand_tilde_with("~", h) is the same sequence of characters as h, no
\* separator appended.
C2_HomeExact ==
    (op = "expand_tilde_with" /\ path = TILDE) => result.val = home

\* C3 (as claimed): for every h and non-empty r,
\* expand_tilde_with(join("~", r), h) == join(h, r), == being Path equality.
C3_JoinLaw ==
    op = "expand_joined" => PathEq(result.val, join(home, rem))

\* C3 (amended): the same, for every non-empty h.
C3_JoinLawNonEmptyHome ==
    (op = "expand_joined" /\ home # <<>>)
        => PathEq(result.val, join(home, rem))

C3_Witness ==
    /\ op = "expand_joined"
    /\ rem = <<"a">>
    /\ home = <<"/", "a">>
    /\ result = Returned("Owned", <<"/", "a", "/", "a">>)

\* C4: home_dir() fails with NotFounded exactly when the lookup yields no
\* value, with Empty exactly when it yields the zero-length path, and
\* otherwise returns the value unchanged, which is then non-empty.
C4_HomeDirClassification ==
    op = "home_dir" =>
        /\ (result = Failed("NotFounded")) <=> ~os.some
        /\ (result = Failed("Empty")) <=> (os.some /\ os.val = <<>>)
        /\ (result.kind = "Ok") <=> (os.some /\ os.val # <<>>)
        /\ result.kind = "Ok" => (result.val = os.val /\ result.val # <<>>)
        /\ result.kind \in {"Ok", "Err"}

C4_Witness ==
    /\ op = "home_dir"
    /\ os = OsSome(<<>>)
    /\ result = Failed("Empty")

\* C5: expand_tilde(path) returns the resolver's error unchanged, with no
\* path, when the lookup fails, and expand_tilde_with(path, h) when the
\* resolver gives h.
C5_Composition ==
    op = "expand_tilde" =>
        /\ ~os.some => result = Failed("NotFounded")
        /\ (os.some /\ os.val = <<>>) => result = Failed("Empty")
        /\ (os.some /\ os.val # <<>>) => result = expand_tilde_with(path, os.val)

C5_Witness ==
    /\ op = "expand_tilde"
    /\ path = TILDE
    /\ os = OsSome(<<>>)
    /\ result = Failed("Empty")

\* C6: expand_tilde_with always returns a path (never an error, never a
\* panic), also for an empty path, an empty home_dir and a home_dir that
\* begins with `~`; an error comes only from home_dir() and is Empty or
\* NotFounded.
C6_Total ==
    /\ op \in ExpandWithOps =>
        (result.kind = "Ok" /\ result.val \in Seq(Chars))
    /\ op = "expanded_again" =>
        (second.kind = "Ok" /\ second.val \in Seq(Chars))
    /\ result.kind # "Panic"
    /\ result.kind = "Err" =>
        (op \in ResolvingOps /\ result.err \in HomeDirError /\ result = home_dir(os))

C6_Witness ==
    /\ op = "expand_tilde_with"
    /\ path = <<>>
    /\ home = <<"~">>
    /\ result.kind = "Ok"

\* C7 (as claimed): for every p and h the expansion is not `~`-prefixed and
\* expanding it again with the same h changes nothing.
C7_Idempotent ==
    op = "expanded_again" =>
        (~FirstComponentIsTilde(result.val) /\ second.val = result.val)

\* C7 (amended): the same, for every h that is non-empty and whose first
\* component is not `~`.
C7_IdempotentPlainHome ==
    (op = "expanded_again" /\ home # <<>> /\ ~FirstComponentIsTilde(home)) =>
        (~FirstComponentIsTilde(result.val) /\ second.val = result.val)

C7_Witness ==
    /\ op = "expanded_again"
    /\ path = <<"~", "/", "~">>
    /\ home = <<"a">>
    /\ result.cow = "Owned"
    /\ second = Returned("Borrowed", result.val)

\* C8: the methods of Path return what the free functions return on the
\* same path, home directory and lookup result.
C8_MethodsAsFunctions ==
    /\ op = "Path::expand_tilde_with" => result = expand_tilde_with(path, home)
    /\ op = "Path::expand_tilde" => result = expand_tilde(path, os)

C8_Witness ==
    /\ op = "Path::expand_tilde_with"
    /\ path = <<"~", "/", "a">>
    /\ home = <<"/", "a">>
    /\ result.cow = "Owned"

\* C9: under any interleaving the shared path, home_dir and environment stay
\* as given, and every finished call has returned what it returns alone.
C9_CallsIndependent ==
    /\ path = given.path
    /\ home = given.home
    /\ os = given.os
    /\ \A t \in Threads : pc[t] = "done" => out[t] = Alone(call[t], given)

C9_Witness ==
    /\ pc["t1"] = "done"
    /\ call["t1"] = "expand_tilde_with"
    /\ out["t1"].cow = "Owned"
    /\ pc["t2"] = "done"
    /\ call["t2"] = "expand_tilde"
    /\ out["t2"].cow = "Owned"

\* C10: expand_tilde succeeds exactly when home_dir() does; when home_dir()
\* fails it returns that error for every path, also one without a leading
\* `~` that expand_tilde_with would return unchanged.
C10_ResolveFirst ==
    op = "expand_tilde" =>
        /\ (result.kind = "Ok") <=> (home_dir(os).kind = "Ok")
        /\ home_dir(os).kind = "Err" =>
            (result.kind = "Err" /\ result.err = home_dir(os).err)

C10_Witness ==
    /\ op = "expand_tilde"
    /\ path = <<"a">>
    /\ ~os.some
    /\ result = Failed("NotFounded")

====
